---- MODULE Spec2Model ----
(***************************************************************************)
(* Register access layer of the cortex-m0 support library: the RCC clock   *)
(* controller facade (peripheral/rcc/mod.rs), the GPIO facade              *)
(* (peripheral/gpio/mod.rs), the USART control words                       *)
(* (peripheral/usart/control.rs), the ICSR word (system_control/icsr.rs)   *)
(* and the register words they update.                                     *)
(* The facades and the register words are translated from the source; the  *)
(* register sub-modules the facades delegate to (rcc/clock_control,        *)
(* rcc/config, rcc/enable, gpio/moder, ...) are modelled from their        *)
(* specification.                                                          *)
(***************************************************************************)
EXTENDS Integers, Sequences, FiniteSets, TLC

VARIABLES
    clockOn,     \* [Clock -> BOOLEAN]  enable bit of each clock
    clockRdy,    \* [Clock -> BOOLEAN]  ready bit of each clock (set by hardware)
    sysSrc,      \* clock selected as system clock source
    pllSrc,      \* clock selected as PLL source
    pllMul,      \* PLL multiplier field
    pllDiv,      \* PLL prediv factor field
    sysRate,     \* cached system clock rate (clock_rate static)
    enr,         \* [EnableReg -> 32-bit word]  peripheral enable registers
    gpio,        \* [GpioReg -> 32-bit word]  the register block behind a GPIO handle
    gpioOps,     \* number of indexed GPIO operations issued so far
    cr1,         \* USART control register 1 (32-bit word)
    cr2,         \* USART control register 2
    cr3,         \* USART control register 3
    usartOps,    \* number of USART register operations issued so far
    icsr,        \* interrupt control and state register
    scsPc,       \* position inside RCC::set_system_clock_source
    dsbCount,    \* number of dsb barriers executed so far
    ctxPc,       \* [Context -> position inside its CR1 setter]
    ctxArg,      \* [Context -> the argument of its setter]
    ctxTmp,      \* [Context -> the word it has loaded into a register]
    serialized,  \* the callers serialize their access to the word
    last,        \* the last call: [op, arg, res]
    panicked     \* the kernel has panicked: nothing runs any more

vars == <<clockOn, clockRdy, sysSrc, pllSrc, pllMul, pllDiv, sysRate,
          enr, gpio, gpioOps, cr1, cr2, cr3, usartOps, icsr, scsPc, dsbCount,
          ctxPc, ctxArg, ctxTmp, serialized, last, panicked>>

rccVars  == <<clockOn, clockRdy, sysSrc, pllSrc, pllMul, pllDiv, sysRate>>
gpioVars == <<gpio, gpioOps>>
usartVars == <<cr1, cr2, cr3>>
\* what the RCC and GPIO operations never touch
scsVars == <<scsPc, dsbCount>>
raceVars == <<ctxPc, ctxArg, ctxTmp, serialized>>
extVars == <<usartVars, usartOps, icsr, scsVars, raceVars>>

-----------------------------------------------------------------------------
(* Words and bits: a 32-bit register word is the set of its set bits *)

WordBits == 0..31

\* the bits of the value v, as bit numbers 0..width-1
BitsOf(v, width) == {i \in 0..(width - 1) : (v \div (2 ^ i)) % 2 = 1}

RECURSIVE ValueOf(_, _)
\* the number whose bits are the bit numbers in s, each taken relative to off
ValueOf(s, off) ==
    IF s = {} THEN 0
    ELSE LET b == CHOOSE x \in s : TRUE
         IN  2 ^ (b - off) + ValueOf(s \ {b}, off)

FieldBits(off, width) == off..(off + width - 1)

\* (word >> off) & (2^width - 1)
GetField(word, off, width) == ValueOf(word \cap FieldBits(off, width), off)

\* (word & !(mask << off)) | (v << off), truncated to 32 bits
SetField(word, off, width, v) ==
    ((word \ FieldBits(off, width)) \cup {off + i : i \in BitsOf(v, width)}) \cap WordBits

TestBit(word, b) == b \in word

-----------------------------------------------------------------------------
(* RCC: clocks *)

Clock == {"HSI", "HSI48", "HSI14", "HSE", "PLL"}

SysClockSources == {"HSI", "HSE", "PLL", "HSI48"}

PllSources == {"HSI", "HSE", "HSI48"}

HSI_VALUE == 8000000
HSE_VALUE == 8000000
HSI48_VALUE == 48000000

PLL_MUL_MIN == 2
PLL_MUL_MAX == 16
PLL_PREDIV_MIN == 1
PLL_PREDIV_MAX == 16

U8_MAX == 255

\* how far beyond each limit of a range the numeric arguments are drawn from
ArgSpan == 1

Around(lo, hi) ==
    {n \in 0..U8_MAX : \/ (lo - ArgSpan <= n /\ n <= lo + ArgSpan)
                       \/ (hi - ArgSpan <= n /\ n <= hi + ArgSpan)}

MulArgs == Around(PLL_MUL_MIN, PLL_MUL_MAX) \cup {9}

PredivArgs == Around(PLL_PREDIV_MIN, PLL_PREDIV_MAX)

base_rate(c) ==
    CASE c = "HSI"   -> HSI_VALUE
      [] c = "HSE"   -> HSE_VALUE
      [] c = "HSI48" -> HSI48_VALUE
      [] OTHER       -> 0

\* clock_rate::update_system_clock_rate: the rate derived from the configuration
\* (at most 48 MHz * 16 / 1, which a u32 holds)
derived_rate(sys, pll, mul, div) ==
    IF sys # "PLL"
    THEN base_rate(sys)
    ELSE (base_rate(pll) * mul) \div div

Call(op, arg, res) == [op |-> op, arg |-> arg, res |-> res]

\* panic!: the call aborts, nothing is written, nothing runs afterwards
Panic(op, arg) ==
    /\ panicked' = TRUE
    /\ last' = Call(op, arg, "panic")
    /\ UNCHANGED <<rccVars, enr, gpioVars, extVars>>

\* ClockControl::disable_clock refuses a clock that drives the system or the PLL
cr_can_disable(c) == c # sysSrc /\ c # pllSrc

\* a mutation of enable_clock: returns only once the clock is ready
enable_clock_wait(c) ==
    /\ ~panicked
    /\ clockOn' = [clockOn EXCEPT ![c] = TRUE]
    /\ clockRdy' = [clockRdy EXCEPT ![c] = TRUE]
    /\ last' = Call("enable_clock", c, "ok")
    /\ UNCHANGED <<sysSrc, pllSrc, pllMul, pllDiv, sysRate, enr, gpioVars, panicked, extVars>>

enable_clock(c) ==
    /\ ~panicked
    /\ clockOn' = [clockOn EXCEPT ![c] = TRUE]
    /\ last' = Call("enable_clock", c, "ok")
    /\ UNCHANGED <<clockRdy, sysSrc, pllSrc, pllMul, pllDiv, sysRate, enr, gpioVars, panicked, extVars>>

disable_clock_always(c) ==
    /\ ~panicked
    /\ clockOn' = [clockOn EXCEPT ![c] = FALSE]
    /\ clockRdy' = [clockRdy EXCEPT ![c] = FALSE]
    /\ last' = Call("disable_clock", c, TRUE)
    /\ UNCHANGED <<sysSrc, pllSrc, pllMul, pllDiv, sysRate, enr, gpioVars, panicked, extVars>>

disable_clock_sysonly(c) ==
    /\ ~panicked
    /\ IF c # sysSrc
       THEN /\ clockOn' = [clockOn EXCEPT ![c] = FALSE]
            /\ clockRdy' = [clockRdy EXCEPT ![c] = FALSE]
            /\ last' = Call("disable_clock", c, TRUE)
       ELSE /\ last' = Call("disable_clock", c, FALSE)
            /\ UNCHANGED <<clockOn, clockRdy>>
    /\ UNCHANGED <<sysSrc, pllSrc, pllMul, pllDiv, sysRate, enr, gpioVars, panicked, extVars>>

\* self.cr.disable_clock(clock): the enable (and with it the ready) bit is
\* cleared unless the clock drives the system or the PLL
disable_clock(c) ==
    /\ ~panicked
    /\ IF cr_can_disable(c)
       THEN /\ clockOn' = [clockOn EXCEPT ![c] = FALSE]
            /\ clockRdy' = [clockRdy EXCEPT ![c] = FALSE]
            /\ last' = Call("disable_clock", c, TRUE)
       ELSE /\ last' = Call("disable_clock", c, FALSE)
            /\ UNCHANGED <<clockOn, clockRdy>>
    /\ UNCHANGED <<sysSrc, pllSrc, pllMul, pllDiv, sysRate, enr, gpioVars, panicked, extVars>>

clock_is_on(c) == clockOn[c]

clock_is_ready(c) == clockRdy[c]

\* the status reads, as calls: the result is returned and nothing is written
RCC_clock_is_on(c) ==
    /\ ~panicked
    /\ last' = Call("clock_is_on", c, clock_is_on(c))
    /\ UNCHANGED <<rccVars, enr, gpioVars, panicked, extVars>>

RCC_clock_is_ready(c) ==
    /\ ~panicked
    /\ last' = Call("clock_is_ready", c, clock_is_ready(c))
    /\ UNCHANGED <<rccVars, enr, gpioVars, panicked, extVars>>

\* the oscillator or the PLL of an enabled clock locks: hardware sets the ready bit
HwReady(c) ==
    /\ ~panicked
    /\ clockOn[c] /\ ~clockRdy[c]
    /\ clockRdy' = [clockRdy EXCEPT ![c] = TRUE]
    /\ last' = Call("hw_ready", c, "ok")
    /\ UNCHANGED <<clockOn, sysSrc, pllSrc, pllMul, pllDiv, sysRate, enr, gpioVars, panicked, extVars>>

get_system_clock_source == sysSrc

get_system_clock_rate == sysRate

set_system_clock_source_any(c) ==
    /\ ~panicked
    /\ sysSrc' = c
    /\ sysRate' = derived_rate(c, pllSrc, pllMul, pllDiv)
    /\ last' = Call("set_system_clock_source", c, "ok")
    /\ UNCHANGED <<clockOn, clockRdy, pllSrc, pllMul, pllDiv, enr, gpioVars, panicked, extVars>>

set_system_clock_source_stale(c) ==
    /\ ~panicked
    /\ IF c \in SysClockSources
       THEN /\ sysSrc' = c
            /\ last' = Call("set_system_clock_source", c, "ok")
            /\ UNCHANGED <<clockOn, clockRdy, pllSrc, pllMul, pllDiv, sysRate, enr, gpioVars, panicked, extVars>>
       ELSE Panic("set_system_clock_source", c)

\* cfgr write (panics on a clock outside SysClockSources), dsb, update_system_clock_rate
set_system_clock_source(c) ==
    /\ ~panicked
    /\ IF c \in SysClockSources
       THEN /\ sysSrc' = c
            /\ sysRate' = derived_rate(c, pllSrc, pllMul, pllDiv)
            /\ last' = Call("set_system_clock_source", c, "ok")
            /\ UNCHANGED <<clockOn, clockRdy, pllSrc, pllMul, pllDiv, enr, gpioVars, panicked, extVars>>
       ELSE Panic("set_system_clock_source", c)

\* how many times a caller switches the system clock source
MaxSwitches == 2

\* set_system_clock_source, statement by statement.
\* self.cfgr.set_system_clock_source(clock): the write of the source field
scs_write(c) ==
    /\ ~panicked
    /\ scsPc = "idle"
    /\ dsbCount < MaxSwitches
    /\ IF c \in SysClockSources
       THEN /\ sysSrc' = c
            /\ scsPc' = "written"
            /\ last' = Call("scs.write", c, "ok")
            /\ UNCHANGED <<clockOn, clockRdy, pllSrc, pllMul, pllDiv, sysRate, enr, gpioVars,
                           usartVars, usartOps, icsr, dsbCount, raceVars, panicked>>
       ELSE Panic("set_system_clock_source", c)

\* unsafe { dsb(); }
scs_dsb ==
    /\ ~panicked
    /\ scsPc = "written"
    /\ scsPc' = "synced"
    /\ dsbCount' = dsbCount + 1
    /\ last' = Call("scs.dsb", last.arg, "ok")
    /\ UNCHANGED <<rccVars, enr, gpioVars, usartVars, usartOps, icsr, raceVars, panicked>>

\* a mutation of scs_update: the rate is recomputed before the barrier
scs_update_early ==
    /\ ~panicked
    /\ scsPc = "written"
    /\ sysRate' = derived_rate(sysSrc, pllSrc, pllMul, pllDiv)
    /\ scsPc' = "idle"
    /\ last' = Call("scs.update", last.arg, "ok")
    /\ UNCHANGED <<clockOn, clockRdy, sysSrc, pllSrc, pllMul, pllDiv, enr, gpioVars,
                   usartVars, usartOps, icsr, dsbCount, raceVars, panicked>>

\* clock_control::clock_rate::update_system_clock_rate()
scs_update ==
    /\ ~panicked
    /\ scsPc = "synced"
    /\ sysRate' = derived_rate(sysSrc, pllSrc, pllMul, pllDiv)
    /\ scsPc' = "idle"
    /\ last' = Call("scs.update", last.arg, "ok")
    /\ UNCHANGED <<clockOn, clockRdy, sysSrc, pllSrc, pllMul, pllDiv, enr, gpioVars,
                   usartVars, usartOps, icsr, dsbCount, raceVars, panicked>>

get_pll_source == pllSrc

set_pll_source_any(c) ==
    /\ ~panicked
    /\ pllSrc' = c
    /\ last' = Call("set_pll_source", c, "ok")
    /\ UNCHANGED <<clockOn, clockRdy, sysSrc, pllMul, pllDiv, sysRate, enr, gpioVars, panicked, extVars>>

set_pll_source(c) ==
    /\ ~panicked
    /\ IF c \in PllSources
       THEN /\ pllSrc' = c
            /\ last' = Call("set_pll_source", c, "ok")
            /\ UNCHANGED <<clockOn, clockRdy, sysSrc, pllMul, pllDiv, sysRate, enr, gpioVars, panicked, extVars>>
       ELSE Panic("set_pll_source", c)

get_pll_multiplier == pllMul

set_pll_multiplier_loose(mul) ==
    /\ ~panicked
    /\ IF mul <= PLL_MUL_MAX + 1
       THEN /\ pllMul' = mul
            /\ last' = Call("set_pll_multiplier", mul, "ok")
            /\ UNCHANGED <<clockOn, clockRdy, sysSrc, pllSrc, pllDiv, sysRate, enr, gpioVars, panicked, extVars>>
       ELSE Panic("set_pll_multiplier", mul)

set_pll_multiplier(mul) ==
    /\ ~panicked
    /\ IF PLL_MUL_MIN <= mul /\ mul <= PLL_MUL_MAX
       THEN /\ pllMul' = mul
            /\ last' = Call("set_pll_multiplier", mul, "ok")
            /\ UNCHANGED <<clockOn, clockRdy, sysSrc, pllSrc, pllDiv, sysRate, enr, gpioVars, panicked, extVars>>
       ELSE Panic("set_pll_multiplier", mul)

get_pll_prediv_factor == pllDiv

set_pll_prediv_factor(factor) ==
    /\ ~panicked
    /\ IF PLL_PREDIV_MIN <= factor /\ factor <= PLL_PREDIV_MAX
       THEN /\ pllDiv' = factor
            /\ last' = Call("set_pll_prediv_factor", factor, "ok")
            /\ UNCHANGED <<clockOn, clockRdy, sysSrc, pllSrc, pllMul, sysRate, enr, gpioVars, panicked, extVars>>
       ELSE Panic("set_pll_prediv_factor", factor)

-----------------------------------------------------------------------------
(* RCC: peripheral clock gates *)

EnableReg == {"AHBENR", "APB1ENR", "APB2ENR"}

Peripheral == {"GPIOA", "GPIOB", "GPIOC", "GPIOF", "USART1", "USART2"}

\* the enable register that holds the peripheral's bit
periph_reg(p) ==
    CASE p \in {"GPIOA", "GPIOB", "GPIOC", "GPIOF"} -> "AHBENR"
      [] p = "USART1" -> "APB2ENR"
      [] p = "USART2" -> "APB1ENR"

\* the position of the peripheral's bit in that register
periph_bit(p) ==
    CASE p = "GPIOA"  -> 17
      [] p = "GPIOB"  -> 18
      [] p = "GPIOC"  -> 19
      [] p = "GPIOF"  -> 22
      [] p = "USART1" -> 14
      [] p = "USART2" -> 17

\* PeripheralControl::enable_peripheral / disable_peripheral on the registers e
enr_gate(e, p, on) ==
    [e EXCEPT ![periph_reg(p)] = SetField(@, periph_bit(p), 1, IF on THEN 1 ELSE 0)]

enr_is_enabled(e, p) == TestBit(e[periph_reg(p)], periph_bit(p))

enable_peripheral_ahb(peripheral) ==
    /\ ~panicked
    /\ enr' = [enr EXCEPT !["AHBENR"] = SetField(@, periph_bit(peripheral), 1, 1)]
    /\ last' = Call("enable_peripheral", peripheral, "ok")
    /\ UNCHANGED <<rccVars, gpioVars, panicked, extVars>>

enable_peripheral(peripheral) ==
    /\ ~panicked
    /\ enr' = enr_gate(enr, peripheral, TRUE)
    /\ last' = Call("enable_peripheral", peripheral, "ok")
    /\ UNCHANGED <<rccVars, gpioVars, panicked, extVars>>

disable_peripheral(peripheral) ==
    /\ ~panicked
    /\ enr' = enr_gate(enr, peripheral, FALSE)
    /\ last' = Call("disable_peripheral", peripheral, "ok")
    /\ UNCHANGED <<rccVars, gpioVars, panicked, extVars>>

peripheral_is_enabled(peripheral) ==
    /\ ~panicked
    /\ last' = Call("peripheral_is_enabled", peripheral, enr_is_enabled(enr, peripheral))
    /\ UNCHANGED <<rccVars, enr, gpioVars, panicked, extVars>>

-----------------------------------------------------------------------------
(* GPIO *)

Group == {"A", "B", "C", "F"}

GpioReg == {"moder", "otyper", "ospeedr", "pupdr", "odr", "afrl", "afrh"}

\* the RCC peripheral of a group
io_group(group) ==
    CASE group = "A" -> "GPIOA"
      [] group = "B" -> "GPIOB"
      [] group = "C" -> "GPIOC"
      [] group = "F" -> "GPIOF"

RawGPIO_enable_slip(group) ==
    /\ ~panicked
    /\ enr' = enr_gate(enr, IF group = "F" THEN "GPIOC" ELSE io_group(group), TRUE)
    /\ last' = Call("GPIO::enable", group, "ok")
    /\ UNCHANGED <<rccVars, gpioVars, panicked, extVars>>

\* rcc().enable_peripheral(io_group)
RawGPIO_enable(group) ==
    /\ ~panicked
    /\ enr' = enr_gate(enr, io_group(group), TRUE)
    /\ last' = Call("GPIO::enable", group, "ok")
    /\ UNCHANGED <<rccVars, gpioVars, panicked, extVars>>

GPIO_enable(group) == RawGPIO_enable(group)

PORT_MAX == 15

\* the port arguments (u8): every port of a group, the values just past the
\* last port, and the largest u8
PortArgs == 0..(PORT_MAX + ArgSpan) \cup {U8_MAX}

\* the codes of the enumerated arguments
Mode == 0..3                \* Input, Output, Alternate, Analog
Type == 0..1                \* PushPull, OpenDrain
Speed == 0..3
Pull == 0..2                \* Neither, Up, Down
AlternateFunction == 0..15

\* at most this many indexed operations are issued on the register block
MaxGpioOps == 1

GpioArg(val, port) == [val |-> val, port |-> port]

\* an indexed setter of a field of `width` bits per port in register reg
GpioWrite(op, reg, width, val, port) ==
    /\ ~panicked
    /\ gpioOps < MaxGpioOps
    /\ IF port \in 0..PORT_MAX
       THEN /\ gpio' = [gpio EXCEPT ![reg] = SetField(@, port * width, width, val)]
            /\ gpioOps' = gpioOps + 1
            /\ last' = Call(op, GpioArg(val, port), "ok")
            /\ UNCHANGED <<rccVars, enr, panicked, extVars>>
       ELSE Panic(op, GpioArg(val, port))

\* an indexed getter of a field of `width` bits per port in register reg
GpioRead(op, reg, width, port) ==
    /\ ~panicked
    /\ gpioOps < MaxGpioOps
    /\ IF port \in 0..PORT_MAX
       THEN /\ gpioOps' = gpioOps + 1
            /\ last' = Call(op, GpioArg(-1, port), GetField(gpio[reg], port * width, width))
            /\ UNCHANGED <<rccVars, enr, gpio, panicked, extVars>>
       ELSE Panic(op, GpioArg(-1, port))

RawGPIO_set_mode(mode, port) == GpioWrite("set_mode", "moder", 2, mode, port)

RawGPIO_get_mode(port) == GpioRead("get_mode", "moder", 2, port)

RawGPIO_set_type(p_type, port) == GpioWrite("set_type", "otyper", 1, p_type, port)

RawGPIO_get_type(port) == GpioRead("get_type", "otyper", 1, port)

\* BSRR::set: writing bit `port` of the set/reset register sets the output bit
RawGPIO_set_bit(port) == GpioWrite("set_bit", "odr", 1, 1, port)

\* BSRR::reset: writing bit `port + 16` clears the output bit
RawGPIO_reset_bit(port) == GpioWrite("reset_bit", "odr", 1, 0, port)

RawGPIO_set_speed(speed, port) == GpioWrite("set_speed", "ospeedr", 2, speed, port)

RawGPIO_get_speed(port) == GpioRead("get_speed", "ospeedr", 2, port)

RawGPIO_set_pull(pull, port) == GpioWrite("set_pull", "pupdr", 2, pull, port)

RawGPIO_get_pull(port) == GpioRead("get_pull", "pupdr", 2, port)

\* AFRL::set_function / AFRH::set_function: four bits per port, AFRH from port 8
afr_set(reg, function, port) ==
    [gpio EXCEPT ![reg] = SetField(@, (port % 8) * 4, 4, function)]

afr_get(reg, port) == GetField(gpio[reg], (port % 8) * 4, 4)

RawGPIO_set_function_wrap(function, port) ==
    /\ ~panicked
    /\ gpioOps < MaxGpioOps
    /\ gpio' = afr_set(IF port % 16 <= 7 THEN "afrl" ELSE "afrh", function, port)
    /\ gpioOps' = gpioOps + 1
    /\ last' = Call("set_function", GpioArg(function, port), "ok")
    /\ UNCHANGED <<rccVars, enr, panicked, extVars>>

RawGPIO_set_function_low(function, port) ==
    /\ ~panicked
    /\ gpioOps < MaxGpioOps
    /\ IF port \in 0..15
       THEN /\ gpio' = afr_set("afrl", function, port)
            /\ gpioOps' = gpioOps + 1
            /\ last' = Call("set_function", GpioArg(function, port), "ok")
            /\ UNCHANGED <<rccVars, enr, panicked, extVars>>
       ELSE Panic("set_function", GpioArg(function, port))

RawGPIO_set_function(function, port) ==
    /\ ~panicked
    /\ gpioOps < MaxGpioOps
    /\ CASE port \in 0..7 ->
              /\ gpio' = afr_set("afrl", function, port)
              /\ gpioOps' = gpioOps + 1
              /\ last' = Call("set_function", GpioArg(function, port), "ok")
              /\ UNCHANGED <<rccVars, enr, panicked, extVars>>
         [] port \in 8..15 ->
              /\ gpio' = afr_set("afrh", function, port)
              /\ gpioOps' = gpioOps + 1
              /\ last' = Call("set_function", GpioArg(function, port), "ok")
              /\ UNCHANGED <<rccVars, enr, panicked, extVars>>
         [] OTHER -> Panic("set_function", GpioArg(function, port))

\* what get_function returns for a port of the group: the field of AFRL for
\* ports 0..7, of AFRH for ports 8..15
get_function_value(port) ==
    CASE port \in 0..7 -> afr_get("afrl", port)
      [] port \in 8..15 -> afr_get("afrh", port)

RawGPIO_get_function(port) ==
    /\ ~panicked
    /\ gpioOps < MaxGpioOps
    /\ CASE port \in 0..7 ->
              /\ gpioOps' = gpioOps + 1
              /\ last' = Call("get_function", GpioArg(-1, port), get_function_value(port))
              /\ UNCHANGED <<rccVars, enr, gpio, panicked, extVars>>
         [] port \in 8..15 ->
              /\ gpioOps' = gpioOps + 1
              /\ last' = Call("get_function", GpioArg(-1, port), get_function_value(port))
              /\ UNCHANGED <<rccVars, enr, gpio, panicked, extVars>>
         [] OTHER -> Panic("get_function", GpioArg(-1, port))

-----------------------------------------------------------------------------
(* USART control registers (peripheral/usart/control.rs) *)

\* the bit masks of usart/defs, as the register tests fix them
CR1_UE     == {0}
CR1_RE     == {2}
CR1_TE     == {3}
CR1_RXNEIE == {5}
CR1_TCIE   == {6}
CR1_TXEIE  == {7}
CR1_PS     == {9}
CR1_PCE    == {10}
CR1_M0     == {12}
CR1_OVER8  == {15}
CR1_M1     == {28}

CR2_STOP_BIT0 == {12}
CR2_STOP_BIT1 == {13}

CR3_DMAR == {6}
CR3_DMAT == {7}
CR3_RTSE == {8}
CR3_CTSE == {9}

UsartMode == {"None", "Receive", "Transmit", "All"}
Parity == {"None", "Even", "Odd"}
WordLength == {"Seven", "Eight", "Nine"}
StopLength == {"Half", "One", "OneAndHalf", "Two"}
DMAMode == {"None", "Receive", "Transmit", "All"}
HardwareFlowControl == {"None", "Rts", "Cts", "All"}

\* self.0 &= !(clear); self.0 |= mask
ClearThenSet(w, clear, mask) == (w \ clear) \cup mask

\* self.0 &= !(bit); if enable { self.0 |= bit; }
ClearThenSetIf(w, bit, enable) == IF enable THEN (w \ bit) \cup bit ELSE w \ bit

\* a mutation of enable_usart: writes the bit without reading the word
enable_usart_store(w, enable) == IF enable THEN CR1_UE ELSE {}

enable_usart(w, enable) == ClearThenSetIf(w, CR1_UE, enable)

is_usart_enabled(w) == (w \cap CR1_UE) # {}

\* a mutation of set_mode: stores the mask without keeping the rest of the word
set_mode_store(w, mode) ==
    CASE mode = "None"     -> {}
      [] mode = "Receive"  -> CR1_RE
      [] mode = "Transmit" -> CR1_TE
      [] mode = "All"      -> CR1_RE \cup CR1_TE

set_mode(w, mode) ==
    LET mask == CASE mode = "None"     -> {}
                  [] mode = "Receive"  -> CR1_RE
                  [] mode = "Transmit" -> CR1_TE
                  [] mode = "All"      -> CR1_RE \cup CR1_TE
    IN  ClearThenSet(w, CR1_RE \cup CR1_TE, mask)

set_receiver_not_empty_interrupt(w, enable) == ClearThenSetIf(w, CR1_RXNEIE, enable)

set_transmit_complete_interrupt(w, enable) == ClearThenSetIf(w, CR1_TCIE, enable)

set_transmit_interrupt(w, enable) == ClearThenSetIf(w, CR1_TXEIE, enable)

set_parity(w, parity) ==
    LET mask == CASE parity = "None" -> {}
                  [] parity = "Even" -> CR1_PCE
                  [] parity = "Odd"  -> CR1_PS \cup CR1_PCE
    IN  ClearThenSet(w, CR1_PS \cup CR1_PCE, mask)

\* a mutation of set_word_length: clears M0 only before setting the mask
set_word_length_m0(w, length) ==
    LET mask == CASE length = "Seven" -> CR1_M1
                  [] length = "Eight" -> {}
                  [] length = "Nine"  -> CR1_M0
    IN  ClearThenSet(w, CR1_M0, mask)

set_word_length(w, length) ==
    LET mask == CASE length = "Seven" -> CR1_M1
                  [] length = "Eight" -> {}
                  [] length = "Nine"  -> CR1_M0
    IN  ClearThenSet(w, CR1_M0 \cup CR1_M1, mask)

set_over8(w, enable) == ClearThenSetIf(w, CR1_OVER8, enable)

get_over8(w) == (w \cap CR1_OVER8) # {}

\* a mutation of set_stop_bits: the masks of Half and Two exchanged
set_stop_bits_swapped(w, length) ==
    LET mask == CASE length = "Half"       -> CR2_STOP_BIT1
                  [] length = "One"        -> {}
                  [] length = "OneAndHalf" -> CR2_STOP_BIT0 \cup CR2_STOP_BIT1
                  [] length = "Two"        -> CR2_STOP_BIT0
    IN  ClearThenSet(w, CR2_STOP_BIT0 \cup CR2_STOP_BIT1, mask)

set_stop_bits(w, length) ==
    LET mask == CASE length = "Half"       -> CR2_STOP_BIT0
                  [] length = "One"        -> {}
                  [] length = "OneAndHalf" -> CR2_STOP_BIT0 \cup CR2_STOP_BIT1
                  [] length = "Two"        -> CR2_STOP_BIT1
    IN  ClearThenSet(w, CR2_STOP_BIT0 \cup CR2_STOP_BIT1, mask)

\* a mutation of set_dma_mode: ors the mask in without clearing the field
set_dma_mode_or(w, mode) ==
    LET mask == CASE mode = "None"     -> {}
                  [] mode = "Receive"  -> CR3_DMAR
                  [] mode = "Transmit" -> CR3_DMAT
                  [] mode = "All"      -> CR3_DMAR \cup CR3_DMAT
    IN  w \cup mask

set_dma_mode(w, mode) ==
    LET mask == CASE mode = "None"     -> {}
                  [] mode = "Receive"  -> CR3_DMAR
                  [] mode = "Transmit" -> CR3_DMAT
                  [] mode = "All"      -> CR3_DMAR \cup CR3_DMAT
    IN  ClearThenSet(w, CR3_DMAR \cup CR3_DMAT, mask)

set_hardware_flow_control(w, hfc) ==
    LET mask == CASE hfc = "None" -> {}
                  [] hfc = "Rts"  -> CR3_RTSE
                  [] hfc = "Cts"  -> CR3_CTSE
                  [] hfc = "All"  -> CR3_RTSE \cup CR3_CTSE
    IN  ClearThenSet(w, CR3_RTSE \cup CR3_CTSE, mask)

\* one call on the CR1 / CR2 / CR3 word of a USART: op(arg) leaves the word w
Cr1Call(op, arg, w, res) ==
    /\ ~panicked
    /\ cr1' = w
    /\ last' = Call(op, arg, res)
    /\ UNCHANGED <<rccVars, enr, gpioVars, cr2, cr3, icsr, scsVars, raceVars, panicked>>

Cr2Call(op, arg, w) ==
    /\ ~panicked
    /\ cr2' = w
    /\ last' = Call(op, arg, "ok")
    /\ UNCHANGED <<rccVars, enr, gpioVars, cr1, cr3, icsr, scsVars, raceVars, panicked>>

Cr3Call(op, arg, w) ==
    /\ ~panicked
    /\ cr3' = w
    /\ last' = Call(op, arg, "ok")
    /\ UNCHANGED <<rccVars, enr, gpioVars, cr1, cr2, icsr, scsVars, raceVars, panicked>>

CR1_enable_usart(enable) ==
    Cr1Call("cr1.enable_usart", enable, enable_usart(cr1, enable), "ok")

CR1_is_usart_enabled ==
    Cr1Call("cr1.is_usart_enabled", "none", cr1, is_usart_enabled(cr1))

CR1_set_mode(mode) ==
    Cr1Call("cr1.set_mode", mode, set_mode(cr1, mode), "ok")

CR1_set_receiver_not_empty_interrupt(enable) ==
    Cr1Call("cr1.set_receiver_not_empty_interrupt", enable,
            set_receiver_not_empty_interrupt(cr1, enable), "ok")

CR1_set_transmit_complete_interrupt(enable) ==
    Cr1Call("cr1.set_transmit_complete_interrupt", enable,
            set_transmit_complete_interrupt(cr1, enable), "ok")

CR1_set_transmit_interrupt(enable) ==
    Cr1Call("cr1.set_transmit_interrupt", enable,
            set_transmit_interrupt(cr1, enable), "ok")

CR1_set_parity(parity) ==
    Cr1Call("cr1.set_parity", parity, set_parity(cr1, parity), "ok")

CR1_set_word_length(length) ==
    Cr1Call("cr1.set_word_length", length, set_word_length(cr1, length), "ok")

CR1_set_over8(enable) ==
    Cr1Call("cr1.set_over8", enable, set_over8(cr1, enable), "ok")

CR1_get_over8 ==
    Cr1Call("cr1.get_over8", "none", cr1, get_over8(cr1))

CR2_set_stop_bits(length) ==
    Cr2Call("cr2.set_stop_bits", length, set_stop_bits(cr2, length))

CR3_set_dma_mode(mode) ==
    Cr3Call("cr3.set_dma_mode", mode, set_dma_mode(cr3, mode))

CR3_set_hardware_flow_control(hfc) ==
    Cr3Call("cr3.set_hardware_flow_control", hfc, set_hardware_flow_control(cr3, hfc))

-----------------------------------------------------------------------------
(* Two contexts updating CR1: the main context calls enable_usart, the interrupt
   context calls set_mode; a setter is a load of the word, the update of the
   loaded value and the store of the result *)

Context == {"main", "irq"}

ctx_args(x) == IF x = "main" THEN BOOLEAN ELSE UsartMode

\* the value the setter of context x computes from the loaded word w
ctx_update(x, w, arg) == IF x = "main" THEN enable_usart(w, arg) ELSE set_mode(w, arg)

\* callers that serialize do not start a setter while the other context is inside one
ctx_load(x, arg) ==
    /\ ~panicked
    /\ ctxPc[x] = "idle"
    /\ serialized => \A y \in Context \ {x} : ctxPc[y] \in {"idle", "done"}
    /\ ctxTmp' = [ctxTmp EXCEPT ![x] = cr1]
    /\ ctxArg' = [ctxArg EXCEPT ![x] = arg]
    /\ ctxPc' = [ctxPc EXCEPT ![x] = "loaded"]
    /\ last' = Call("ctx.load", x, "ok")
    /\ UNCHANGED <<rccVars, enr, gpioVars, usartVars, usartOps, icsr, scsVars, serialized, panicked>>

ctx_modify(x) ==
    /\ ~panicked
    /\ ctxPc[x] = "loaded"
    /\ ctxTmp' = [ctxTmp EXCEPT ![x] = ctx_update(x, ctxTmp[x], ctxArg[x])]
    /\ ctxPc' = [ctxPc EXCEPT ![x] = "modified"]
    /\ last' = Call("ctx.modify", x, "ok")
    /\ UNCHANGED <<rccVars, enr, gpioVars, usartVars, usartOps, icsr, scsVars, ctxArg, serialized, panicked>>

ctx_store(x) ==
    /\ ~panicked
    /\ ctxPc[x] = "modified"
    /\ cr1' = ctxTmp[x]
    /\ ctxPc' = [ctxPc EXCEPT ![x] = "done"]
    /\ last' = Call("ctx.store", x, "ok")
    /\ UNCHANGED <<rccVars, enr, gpioVars, cr2, cr3, usartOps, icsr, scsVars, ctxArg, ctxTmp, serialized, panicked>>

-----------------------------------------------------------------------------
(* ICSR (system_control/icsr.rs) *)

\* the bit masks of system_control/defs, as the register tests fix them
ICSR_PENDSVSET == {28}
ICSR_PENDSVCLR == {27}

\* self.0 |= ICSR_PENDSVSET
set_pend_sv(w) == w \cup ICSR_PENDSVSET

\* a mutation of clear_pend_sv: clears the pending bit instead of requesting it
clear_pend_sv_reset(w) == w \ ICSR_PENDSVSET

\* self.0 |= ICSR_PENDSVCLR
clear_pend_sv(w) == w \cup ICSR_PENDSVCLR

IcsrCall(op, w) ==
    /\ ~panicked
    /\ icsr' = w
    /\ last' = Call(op, "none", "ok")
    /\ UNCHANGED <<rccVars, enr, gpioVars, usartVars, usartOps, scsVars, raceVars, panicked>>

ICSR_set_pend_sv == IcsrCall("set_pend_sv", set_pend_sv(icsr))

ICSR_clear_pend_sv == IcsrCall("clear_pend_sv", clear_pend_sv(icsr))

-----------------------------------------------------------------------------
(* Initial state and the RCC specifications *)

\* the clock tree after reset: HSI on and ready drives the system, PLL fed by HSI
ResetRCC ==
    /\ clockOn = [c \in Clock |-> c = "HSI"]
    /\ clockRdy = [c \in Clock |-> c = "HSI"]
    /\ sysSrc = "HSI"
    /\ pllSrc = "HSI"
    /\ pllMul = PLL_MUL_MIN
    /\ pllDiv = PLL_PREDIV_MIN
    /\ sysRate = derived_rate("HSI", "HSI", PLL_MUL_MIN, PLL_PREDIV_MIN)

ResetENR == enr = [r \in EnableReg |-> {}]

ResetGPIO ==
    /\ gpio = [r \in GpioReg |-> {}]
    /\ gpioOps = 0

ResetUSART == cr1 = {} /\ cr2 = {} /\ cr3 = {} /\ usartOps = 0

ResetICSR == icsr = {} /\ scsPc = "idle" /\ dsbCount = 0

\* no context is inside a setter
NoRace ==
    /\ ctxPc = [x \in Context |-> "idle"]
    /\ ctxArg = [x \in Context |-> "none"]
    /\ ctxTmp = [x \in Context |-> {}]

NoCall ==
    /\ last = Call("none", "none", "ok")
    /\ panicked = FALSE
    /\ NoRace /\ serialized = TRUE

InitRCC == ResetRCC /\ ResetENR /\ ResetGPIO /\ ResetUSART /\ ResetICSR /\ NoCall

\* callers that switch clocks on and off and select the sources, the hardware
\* asserting readiness in between; the PLL factors stay at their reset values
NextClock ==
    \/ \E c \in Clock : enable_clock(c)
    \/ \E c \in Clock : disable_clock(c)
    \/ \E c \in Clock : HwReady(c)
    \/ \E c \in Clock : set_system_clock_source(c)
    \/ \E c \in Clock : set_pll_source(c)

SpecClock == InitRCC /\ [][NextClock]_vars

\* callers that configure the PLL and select the sources
NextPll ==
    \/ \E c \in Clock : set_system_clock_source(c)
    \/ \E c \in Clock : set_pll_source(c)
    \/ \E m \in MulArgs : set_pll_multiplier(m)
    \/ \E f \in PredivArgs : set_pll_prediv_factor(f)

SpecPll == InitRCC /\ [][NextPll]_vars

\* callers that switch clocks on and off, select sources and poll the status bits
NextLifecycle ==
    \/ \E c \in Clock : enable_clock(c)
    \/ \E c \in Clock : disable_clock(c)
    \/ \E c \in Clock : HwReady(c)
    \/ \E c \in Clock : RCC_clock_is_on(c)
    \/ \E c \in Clock : RCC_clock_is_ready(c)
    \/ \E c \in Clock : set_system_clock_source(c)
    \/ \E c \in Clock : set_pll_source(c)

SpecLifecycle == InitRCC /\ [][NextLifecycle]_vars

-----------------------------------------------------------------------------
(* The peripheral gates and the GPIO register block *)

\* bits of an enable register that belong to none of the peripherals above
OtherBits == {0, 31}

\* a register block as reset, and one with every field of every port at its
\* highest setting (Analog, OpenDrain, speed 3, Down, output set, AF15)
GpioImages ==
    { [r \in GpioReg |-> {}],
      [r \in GpioReg |->
         CASE r \in {"moder", "ospeedr", "afrl", "afrh"} -> WordBits
           [] r \in {"otyper", "odr"} -> 0..15
           [] r = "pupdr" -> {2 * p + 1 : p \in 0..15}] }

InitENR ==
    /\ ResetRCC /\ ResetUSART /\ ResetICSR /\ NoCall
    /\ enr \in [EnableReg -> {{}, OtherBits}]
    /\ gpio \in GpioImages
    /\ gpioOps = 0

NextENR ==
    \/ \E p \in Peripheral : enable_peripheral(p)
    \/ \E p \in Peripheral : disable_peripheral(p)
    \/ \E p \in Peripheral : peripheral_is_enabled(p)
    \/ \E g \in Group : GPIO_enable(g)

SpecENR == InitENR /\ [][NextENR]_vars

InitGPIO ==
    /\ ResetRCC /\ ResetENR /\ ResetUSART /\ ResetICSR /\ NoCall
    /\ gpio \in GpioImages
    /\ gpioOps = 0

NextGPIO ==
    \/ \E p \in PortArgs, m \in Mode : RawGPIO_set_mode(m, p)
    \/ \E p \in PortArgs : RawGPIO_get_mode(p)
    \/ \E p \in PortArgs, t \in Type : RawGPIO_set_type(t, p)
    \/ \E p \in PortArgs : RawGPIO_get_type(p)
    \/ \E p \in PortArgs : RawGPIO_set_bit(p)
    \/ \E p \in PortArgs : RawGPIO_reset_bit(p)
    \/ \E p \in PortArgs, v \in Speed : RawGPIO_set_speed(v, p)
    \/ \E p \in PortArgs : RawGPIO_get_speed(p)
    \/ \E p \in PortArgs, v \in Pull : RawGPIO_set_pull(v, p)
    \/ \E p \in PortArgs : RawGPIO_get_pull(p)
    \/ \E p \in PortArgs, f \in AlternateFunction : RawGPIO_set_function(f, p)
    \/ \E p \in PortArgs : RawGPIO_get_function(p)

SpecGPIO == InitGPIO /\ [][NextGPIO]_vars

-----------------------------------------------------------------------------
(* The statements of set_system_clock_source among the other RCC operations *)

\* the arguments the other RCC operations are called with here: two per operation
GateClocks == {"HSE", "PLL"}
GatePeripherals == {"GPIOA", "USART1"}

\* one caller: an operation starts only when the previous one has returned
NextBarrier ==
    \/ \E c \in Clock : scs_write(c)
    \/ scs_dsb
    \/ scs_update
    \/ /\ scsPc = "idle"
       /\ \/ \E c \in GateClocks : enable_clock(c)
          \/ \E c \in GateClocks : disable_clock(c)
          \/ \E c \in PllSources : set_pll_source(c)
          \/ \E m \in {PLL_MUL_MIN, PLL_MUL_MAX} : set_pll_multiplier(m)
          \/ \E f \in {PLL_PREDIV_MIN, PLL_PREDIV_MAX} : set_pll_prediv_factor(f)
          \/ \E p \in GatePeripherals : enable_peripheral(p)
          \/ \E p \in GatePeripherals : disable_peripheral(p)

SpecBarrier == InitRCC /\ [][NextBarrier]_vars

-----------------------------------------------------------------------------
(* The USART control registers *)

\* starting words: all clear, all set, the even bits, the odd bits
WordImages ==
    { {}, WordBits, {b \in WordBits : b % 2 = 0}, {b \in WordBits : b % 2 = 1} }

\* how many USART register operations a caller issues on the three words
MaxUsartOps == 2

Cr1Ops ==
    \/ \E e \in BOOLEAN : CR1_enable_usart(e)
    \/ CR1_is_usart_enabled
    \/ \E m \in UsartMode : CR1_set_mode(m)
    \/ \E e \in BOOLEAN : CR1_set_receiver_not_empty_interrupt(e)
    \/ \E e \in BOOLEAN : CR1_set_transmit_complete_interrupt(e)
    \/ \E e \in BOOLEAN : CR1_set_transmit_interrupt(e)
    \/ \E p \in Parity : CR1_set_parity(p)
    \/ \E l \in WordLength : CR1_set_word_length(l)
    \/ \E e \in BOOLEAN : CR1_set_over8(e)
    \/ CR1_get_over8

Cr2Ops == \E l \in StopLength : CR2_set_stop_bits(l)

Cr3Ops ==
    \/ \E m \in DMAMode : CR3_set_dma_mode(m)
    \/ \E h \in HardwareFlowControl : CR3_set_hardware_flow_control(h)

\* a caller configuring a whole USART: a bounded number of calls on the three
\* words, each starting from any of the images
InitUSART ==
    /\ ResetRCC /\ ResetENR /\ ResetGPIO /\ ResetICSR /\ NoCall
    /\ cr1 \in WordImages /\ cr2 \in WordImages /\ cr3 \in WordImages
    /\ usartOps = 0

NextUSART ==
    /\ usartOps < MaxUsartOps
    /\ usartOps' = usartOps + 1
    /\ (Cr1Ops \/ Cr2Ops \/ Cr3Ops)

SpecUSART == InitUSART /\ [][NextUSART]_vars

\* any number of calls on CR1
InitCR1 ==
    /\ ResetRCC /\ ResetENR /\ ResetGPIO /\ ResetICSR /\ NoCall
    /\ cr1 \in WordImages /\ cr2 = {} /\ cr3 = {}
    /\ usartOps = 0

NextCR1 == Cr1Ops /\ UNCHANGED usartOps

SpecCR1 == InitCR1 /\ [][NextCR1]_vars

\* any number of calls on CR2 and CR3
InitCR23 ==
    /\ ResetRCC /\ ResetENR /\ ResetGPIO /\ ResetICSR /\ NoCall
    /\ cr1 = {} /\ cr2 \in WordImages /\ cr3 \in WordImages
    /\ usartOps = 0

NextCR23 == (Cr2Ops \/ Cr3Ops) /\ UNCHANGED usartOps

SpecCR23 == InitCR23 /\ [][NextCR23]_vars

-----------------------------------------------------------------------------
(* The ICSR word *)

\* starting words: every combination of the two PendSV bits, their neighbours
\* and the two ends of the word
IcsrImages == SUBSET {0, 26, 27, 28, 29, 31}

InitICSR ==
    /\ ResetRCC /\ ResetENR /\ ResetGPIO /\ ResetUSART /\ NoCall
    /\ icsr \in IcsrImages
    /\ scsPc = "idle" /\ dsbCount = 0

NextICSR ==
    \/ ICSR_set_pend_sv
    \/ ICSR_clear_pend_sv

SpecICSR == InitICSR /\ [][NextICSR]_vars

-----------------------------------------------------------------------------
(* Two contexts on one word *)

InitRace ==
    /\ ResetRCC /\ ResetENR /\ ResetGPIO /\ ResetICSR
    /\ last = Call("none", "none", "ok")
    /\ panicked = FALSE
    /\ cr1 \in WordImages /\ cr2 = {} /\ cr3 = {} /\ usartOps = 0
    /\ NoRace
    /\ serialized \in BOOLEAN

NextRace ==
    \/ \E x \in Context : \E arg \in ctx_args(x) : ctx_load(x, arg)
    \/ \E x \in Context : ctx_modify(x)
    \/ \E x \in Context : ctx_store(x)

SpecRace == InitRace /\ [][NextRace]_vars

-----------------------------------------------------------------------------
(* Claims about the RCC clock configuration *)

\* C1: disable_clock(c) returns false and changes no enable bit, no source and
\* not the cached rate when c is the current system clock source or the current
\* PLL source; for every other clock it clears c's enable bit and returns true.
C1_DisableClock ==
    [][last'.op = "disable_clock" =>
         LET c == last'.arg
         IN  IF c = get_system_clock_source \/ c = get_pll_source
             THEN /\ last'.res = FALSE
                  /\ UNCHANGED <<clockOn, clockRdy, sysSrc, pllSrc, pllMul, pllDiv, sysRate>>
             ELSE /\ last'.res = TRUE
                  /\ ~clockOn'[c]
                  /\ \A d \in Clock \ {c} : clockOn'[d] = clockOn[d]
                  /\ UNCHANGED <<sysSrc, pllSrc, pllMul, pllDiv, sysRate>>]_vars

\* a refused call: the PLL source, which is on and is not the system source
C1_Witness ==
    /\ last.op = "disable_clock" /\ last.res = FALSE
    /\ last.arg = pllSrc /\ pllSrc # sysSrc /\ clockOn[pllSrc]

\* the rate the configuration stands for, written out
ExpectedRate ==
    IF sysSrc = "PLL"
    THEN ((CASE pllSrc = "HSI48" -> 48000000 [] OTHER -> 8000000) * pllMul) \div pllDiv
    ELSE (CASE sysSrc = "HSI48" -> 48000000 [] OTHER -> 8000000)

AcceptedMutation ==
    /\ last.op \in {"set_system_clock_source", "set_pll_source",
                    "set_pll_multiplier", "set_pll_prediv_factor"}
    /\ last.res = "ok"

\* C2: after any sequence of accepted RCC mutations the cached rate returned by
\* get_system_clock_rate() equals the rate derived from the current configuration.
C2_RateFollowsConfiguration ==
    AcceptedMutation => get_system_clock_rate = ExpectedRate

\* C3 as claimed: the system clock source and the PLL source always have their
\* enable bit set.
C3_LoadBearingEnabled ==
    clock_is_on(get_system_clock_source) /\ clock_is_on(get_pll_source)

\* C3 as amended: no step clears the enable bit of a clock that is the system
\* clock source or the PLL source when the step is taken.
C3_LoadBearingNeverDisabled ==
    [][\A c \in Clock :
         (clockOn[c] /\ (c = sysSrc \/ c = pllSrc)) => clockOn'[c]]_vars

\* disable_clock was tried on the running system clock source and refused
C3_Witness ==
    /\ last.op = "disable_clock" /\ last.res = FALSE
    /\ last.arg = sysSrc /\ clockOn[sysSrc] /\ sysSrc # "HSI"

\* C4: set_system_clock_source(c) is accepted only for HSI, HSE, PLL and HSI48;
\* any other clock panics and leaves the source and the cached rate as they
\* were, so get_system_clock_source() is always one of the four.
C4_SystemClockSource ==
    [][/\ get_system_clock_source \in {"HSI", "HSE", "PLL", "HSI48"}
       /\ get_system_clock_source' \in {"HSI", "HSE", "PLL", "HSI48"}
       /\ last'.op = "set_system_clock_source" =>
             IF last'.arg \in {"HSI", "HSE", "PLL", "HSI48"}
             THEN last'.res = "ok" /\ ~panicked' /\ get_system_clock_source' = last'.arg
             ELSE /\ last'.res = "panic" /\ panicked'
                  /\ UNCHANGED <<sysSrc, sysRate>>]_vars

C4_Witness ==
    /\ panicked /\ last.op = "set_system_clock_source" /\ last.arg = "HSI14"
    /\ sysSrc = "PLL" /\ sysRate = 96000000

\* C5: right after an accepted set_system_clock_source the cached rate is
\* base_rate(PLL source) * multiplier / prediv when the PLL was selected (HSE,
\* 9, 1 gives 72,000,000) and the base rate of the selected clock otherwise.
C5_RateAfterSwitch ==
    (last.op = "set_system_clock_source" /\ last.res = "ok") =>
        /\ get_system_clock_rate = ExpectedRate
        /\ (sysSrc = "PLL" /\ pllSrc = "HSE" /\ pllMul = 9 /\ pllDiv = 1)
               => get_system_clock_rate = 72000000

C5_Witness ==
    /\ last.op = "set_system_clock_source" /\ last.res = "ok"
    /\ sysSrc = "PLL" /\ pllSrc = "HSE" /\ pllMul = 9 /\ pllDiv = 1
    /\ sysRate = 72000000

\* C6: set_pll_source(c) is accepted only for HSI, HSE and HSI48; any other
\* clock, the PLL included, panics without changing the PLL source; after an
\* accepted call get_pll_source() returns c, so it is always one of the three.
C6_PllSource ==
    [][/\ get_pll_source \in {"HSI", "HSE", "HSI48"}
       /\ get_pll_source' \in {"HSI", "HSE", "HSI48"}
       /\ last'.op = "set_pll_source" =>
             IF last'.arg \in {"HSI", "HSE", "HSI48"}
             THEN last'.res = "ok" /\ ~panicked' /\ get_pll_source' = last'.arg
             ELSE last'.res = "panic" /\ panicked' /\ UNCHANGED pllSrc]_vars

C6_Witness ==
    /\ panicked /\ last.op = "set_pll_source" /\ last.arg = "PLL"
    /\ pllSrc = "HSI48"

\* C7: set_pll_multiplier(m) is accepted exactly when 2 <= m <= 16 and
\* set_pll_prediv_factor(f) exactly when 1 <= f <= 16; a rejected argument
\* panics and leaves the stored value, an accepted one is what the getter
\* returns; the multiplier is always in [2,16] and the prediv factor in [1,16].
C7_PllFactors ==
    [][/\ get_pll_multiplier' \in 2..16
       /\ get_pll_prediv_factor' \in 1..16
       /\ last'.op = "set_pll_multiplier" =>
             IF 2 <= last'.arg /\ last'.arg <= 16
             THEN last'.res = "ok" /\ ~panicked' /\ get_pll_multiplier' = last'.arg
             ELSE last'.res = "panic" /\ panicked' /\ UNCHANGED pllMul
       /\ last'.op = "set_pll_prediv_factor" =>
             IF 1 <= last'.arg /\ last'.arg <= 16
             THEN last'.res = "ok" /\ ~panicked' /\ get_pll_prediv_factor' = last'.arg
             ELSE last'.res = "panic" /\ panicked' /\ UNCHANGED pllDiv]_vars

C7_Witness ==
    /\ panicked /\ last.op = "set_pll_multiplier" /\ last.arg = 17
    /\ pllMul = 16 /\ pllDiv = 16

-----------------------------------------------------------------------------
(* Claims about the peripheral gates and the GPIO facade *)

\* the gate of each peripheral, as <<register, bit>>
GateOf(p) ==
    CASE p = "GPIOA"  -> <<"AHBENR", 17>>
      [] p = "GPIOB"  -> <<"AHBENR", 18>>
      [] p = "GPIOC"  -> <<"AHBENR", 19>>
      [] p = "GPIOF"  -> <<"AHBENR", 22>>
      [] p = "USART1" -> <<"APB2ENR", 14>>
      [] p = "USART2" -> <<"APB1ENR", 17>>

\* every bit of every enable register but the gate g keeps its value in the step
OtherGatesKept(g) ==
    \A r \in EnableReg : \A b \in WordBits :
        (<<r, b>> # g) => ((b \in enr'[r]) <=> (b \in enr[r]))

\* C8: enable_peripheral(p) makes peripheral_is_enabled(p) true and
\* disable_peripheral(p) makes it false, each by the bit of p in the enable
\* register that holds it, and neither changes any other gate of any enable
\* register; peripheral_is_enabled(p) reports that bit and changes nothing.
C8_PeripheralGate ==
    [][/\ last'.op \in {"enable_peripheral", "disable_peripheral"} =>
             LET g == GateOf(last'.arg)
                 on == (last'.op = "enable_peripheral")
             IN  /\ (g[2] \in enr'[g[1]]) <=> on
                 /\ enr_is_enabled(enr', last'.arg) <=> on
                 /\ OtherGatesKept(g)
       /\ last'.op = "peripheral_is_enabled" =>
             LET g == GateOf(last'.arg)
             IN  /\ last'.res = (g[2] \in enr[g[1]])
                 /\ UNCHANGED enr]_vars

\* USART2 was gated off while GPIOA, which has the same bit number in another
\* register, and USART1 stay gated on
C8_Witness ==
    /\ last.op = "disable_peripheral" /\ last.arg = "USART2"
    /\ 17 \notin enr["APB1ENR"] /\ 17 \in enr["AHBENR"] /\ 14 \in enr["APB2ENR"]

\* C9: GPIO::enable(g) gates on exactly the RCC peripheral of group g (A ->
\* GPIOA, B -> GPIOB, C -> GPIOC, F -> GPIOF), changes no other gate and no
\* register of the GPIO register block.
C9_GpioEnable ==
    [][last'.op = "GPIO::enable" =>
         LET g == GateOf(CASE last'.arg = "A" -> "GPIOA"
                           [] last'.arg = "B" -> "GPIOB"
                           [] last'.arg = "C" -> "GPIOC"
                           [] last'.arg = "F" -> "GPIOF")
         IN  /\ g[2] \in enr'[g[1]]
             /\ OtherGatesKept(g)
             /\ UNCHANGED gpio]_vars

\* group F was enabled alone, over a register block that is not the reset one
C9_Witness ==
    /\ last.op = "GPIO::enable" /\ last.arg = "F"
    /\ enr["AHBENR"] = {22} /\ gpio["moder"] = WordBits

GpioIndexedOps ==
    {"set_mode", "get_mode", "set_type", "get_type", "set_speed", "get_speed",
     "set_pull", "get_pull", "set_function", "get_function", "set_bit", "reset_bit"}

\* C10: every GPIO operation that takes a port index panics for a port outside
\* [0,15]: it writes no register and returns no value (the index is neither
\* clamped nor wrapped into range).
C10_InvalidPortAborts ==
    [][(last'.op \in GpioIndexedOps /\ last'.arg.port \notin 0..15) =>
         /\ last'.res = "panic"
         /\ panicked'
         /\ UNCHANGED <<gpio, enr>>]_vars

\* set_function on port 16, which wrapped would be port 0 of AFRL
C10_Witness ==
    /\ panicked /\ last.op = "set_function" /\ last.arg.port = 16
    /\ last.arg.val = 5 /\ gpio["afrl"] = {}

\* the alternate function of a port as the two registers hold it: four bits
\* per port, ports 0..7 in AFRL and ports 8..15 in AFRH
AfrField(g, port) ==
    LET reg  == IF port <= 7 THEN g["afrl"] ELSE g["afrh"]
        base == 4 * (IF port <= 7 THEN port ELSE port - 8)
    IN  (IF base \in reg THEN 1 ELSE 0) + (IF base + 1 \in reg THEN 2 ELSE 0)
          + (IF base + 2 \in reg THEN 4 ELSE 0) + (IF base + 3 \in reg THEN 8 ELSE 0)

\* C11: set_function(f, port) and get_function(port) use AFRL for ports 0..7
\* and AFRH for ports 8..15: for every port in [0,15], after set_function(f,
\* port) get_function(port) returns f and the function of every other port, in
\* either register, is unchanged (as is every other register of the block).
C11_FunctionRoundTrip ==
    [][/\ \A port \in 0..15 : \A f \in 0..15 :
            (last'.op = "set_function" /\ last'.arg = GpioArg(f, port)) =>
                /\ last'.res = "ok"
                /\ get_function_value(port)' = f
                /\ AfrField(gpio', port) = f
                /\ \A q \in (0..15) \ {port} :
                      /\ get_function_value(q)' = get_function_value(q)
                      /\ AfrField(gpio', q) = AfrField(gpio, q)
                /\ \A r \in GpioReg \ {"afrl", "afrh"} : gpio'[r] = gpio[r]
       /\ \A port \in 0..15 :
            (last'.op = "get_function" /\ last'.arg.port = port) =>
                /\ last'.res = AfrField(gpio, port)
                /\ UNCHANGED gpio]_vars

\* function 5 was set for port 8, the first port of AFRH, in a block whose
\* other ports all have function 15: port 0, at the same offset of AFRL, and
\* port 9, the neighbour in AFRH, keep theirs
C11_Witness ==
    /\ last.op = "set_function" /\ last.arg = GpioArg(5, 8) /\ last.res = "ok"
    /\ get_function_value(8) = 5
    /\ get_function_value(0) = 15 /\ get_function_value(9) = 15


-----------------------------------------------------------------------------
(* Claims about the USART control words *)

\* the word and the bits that each setter owns
SetterField ==
    [ op \in { "cr1.enable_usart", "cr1.set_mode", "cr1.set_receiver_not_empty_interrupt",
               "cr1.set_transmit_complete_interrupt", "cr1.set_transmit_interrupt",
               "cr1.set_parity", "cr1.set_word_length", "cr1.set_over8",
               "cr2.set_stop_bits", "cr3.set_dma_mode", "cr3.set_hardware_flow_control" } |->
        CASE op = "cr1.enable_usart"                     -> [word |-> 1, bits |-> {0}]
          [] op = "cr1.set_mode"                         -> [word |-> 1, bits |-> {2, 3}]
          [] op = "cr1.set_receiver_not_empty_interrupt" -> [word |-> 1, bits |-> {5}]
          [] op = "cr1.set_transmit_complete_interrupt"  -> [word |-> 1, bits |-> {6}]
          [] op = "cr1.set_transmit_interrupt"           -> [word |-> 1, bits |-> {7}]
          [] op = "cr1.set_parity"                       -> [word |-> 1, bits |-> {9, 10}]
          [] op = "cr1.set_word_length"                  -> [word |-> 1, bits |-> {12, 28}]
          [] op = "cr1.set_over8"                        -> [word |-> 1, bits |-> {15}]
          [] op = "cr2.set_stop_bits"                    -> [word |-> 2, bits |-> {12, 13}]
          [] op = "cr3.set_dma_mode"                     -> [word |-> 3, bits |-> {6, 7}]
          [] op = "cr3.set_hardware_flow_control"        -> [word |-> 3, bits |-> {8, 9}] ]

\* C12: every CR1/CR2/CR3 setter changes only the bits of its own field: the other
\* bits of its word and the other two words are as before, whatever the word held;
\* so a field set to V keeps V when a different field is set to W afterwards.
C12_SetterFrame ==
    [][\A op \in DOMAIN SetterField :
         last'.op = op =>
            LET own  == SetterField[op].bits
                keep == WordBits \ own
            IN  /\ last'.res = "ok"
                /\ SetterField[op].word = 1 =>
                      cr1' \cap keep = cr1 \cap keep /\ cr2' = cr2 /\ cr3' = cr3
                /\ SetterField[op].word = 2 =>
                      cr2' \cap keep = cr2 \cap keep /\ cr1' = cr1 /\ cr3' = cr3
                /\ SetterField[op].word = 3 =>
                      cr3' \cap keep = cr3 \cap keep /\ cr1' = cr1 /\ cr2' = cr2]_vars

\* from a clear CR1, enable_usart(true) then set_mode(All): bit 0 is still set,
\* beside a CR3 whose every bit is set
C12_Witness ==
    /\ usartOps = 2 /\ last.op = "cr1.set_mode" /\ last.arg = "All"
    /\ cr1 = {0, 2, 3} /\ cr3 = WordBits

\* C13: after a set_stop_bits call, whatever CR2 held before and however many
\* calls came earlier, bits 13:12 hold the code of that call:
\* Half -> 01, One -> 00, OneAndHalf -> 11, Two -> 10.
C13_StopBitsCode ==
    last.op = "cr2.set_stop_bits" =>
        GetField(cr2, 12, 2) = CASE last.arg = "Half"       -> 1
                                 [] last.arg = "One"        -> 0
                                 [] last.arg = "OneAndHalf" -> 3
                                 [] last.arg = "Two"        -> 2

\* Two written over a word whose every bit was set: bit 13 stays, bit 12 is cleared
C13_Witness ==
    /\ last.op = "cr2.set_stop_bits" /\ last.arg = "Two"
    /\ cr2 = WordBits \ {12}

\* C14: after a set_word_length call, whatever CR1 held before, bits 28 and 12
\* hold the code of that call: Seven -> 28 set and 12 clear, Eight -> both clear,
\* Nine -> 12 set and 28 clear; the two bits are never both set after a call.
C14_WordLengthCode ==
    last.op = "cr1.set_word_length" =>
        /\ last.arg = "Seven" => (28 \in cr1 /\ 12 \notin cr1)
        /\ last.arg = "Eight" => (28 \notin cr1 /\ 12 \notin cr1)
        /\ last.arg = "Nine"  => (12 \in cr1 /\ 28 \notin cr1)
        /\ ~(12 \in cr1 /\ 28 \in cr1)

\* Seven written over the even-bits word, in which bits 12 and 28 were both set
C14_Witness ==
    /\ last.op = "cr1.set_word_length" /\ last.arg = "Seven"
    /\ 28 \in cr1 /\ 12 \notin cr1
    /\ 30 \in cr1 /\ 31 \notin cr1

\* C15: after a set_dma_mode call, whatever CR3 held before, bits 7:6 hold the
\* code of that call: None -> neither, Receive -> bit 6 only, Transmit -> bit 7
\* only, All -> bits 6 and 7.
C15_DmaModeCode ==
    last.op = "cr3.set_dma_mode" =>
        cr3 \cap {6, 7} = CASE last.arg = "None"     -> {}
                            [] last.arg = "Receive"  -> {6}
                            [] last.arg = "Transmit" -> {7}
                            [] last.arg = "All"      -> {6, 7}

\* Receive written over a word whose every bit was set: bit 7 is cleared
C15_Witness ==
    /\ last.op = "cr3.set_dma_mode" /\ last.arg = "Receive"
    /\ cr3 \cap {5, 6, 7} = {5, 6}
    /\ 31 \in cr3 /\ 0 \in cr3

-----------------------------------------------------------------------------
(* Claims about the ICSR word *)

\* C16: set_pend_sv sets bit 28 and clear_pend_sv sets bit 27, each leaving every
\* other bit as it was; neither clears a bit, so after set_pend_sv followed by
\* clear_pend_sv bits 28 and 27 are both set.
C16_PendSv ==
    [][/\ last'.op = "set_pend_sv" =>
            /\ 28 \in icsr'
            /\ icsr' \ {28} = icsr \ {28}
       /\ last'.op = "clear_pend_sv" =>
            /\ 27 \in icsr'
            /\ icsr' \ {27} = icsr \ {27}
       /\ last'.op \in {"set_pend_sv", "clear_pend_sv"} => icsr \subseteq icsr'
       /\ (last.op = "set_pend_sv" /\ last'.op = "clear_pend_sv") =>
            {27, 28} \subseteq icsr']_vars

\* clear_pend_sv on a word that held bit 28 alone, as set_pend_sv leaves a clear
\* word: both bits are set and nothing else
C16_Witness ==
    /\ last.op = "clear_pend_sv"
    /\ icsr = {27, 28}

-----------------------------------------------------------------------------
(* Claims about the order of steps and the clock state machine *)

\* C17: inside set_system_clock_source the write of the source field comes first,
\* the dsb barrier next and the recomputation of the cached rate last: the barrier
\* directly follows the write, the recomputation directly follows the barrier and
\* reads the source the write stored; no other RCC operation executes a barrier.
C17_WriteBarrierUpdate ==
    [][/\ last'.op = "scs.dsb" =>
            /\ last.op = "scs.write" /\ last'.arg = last.arg
            /\ sysSrc = last.arg
            /\ dsbCount' = dsbCount + 1
       /\ last'.op = "scs.update" =>
            /\ last.op = "scs.dsb" /\ last'.arg = last.arg
            /\ sysSrc = last.arg
            /\ sysRate' = derived_rate(last.arg, pllSrc, pllMul, pllDiv)
       /\ last.op = "scs.write" => last'.op = "scs.dsb"
       /\ last.op = "scs.dsb" => last'.op = "scs.update"
       /\ dsbCount' # dsbCount => last'.op = "scs.dsb"
       /\ last'.op \notin {"scs.write", "scs.dsb", "scs.update"} => UNCHANGED <<scsPc, dsbCount>>]_vars

\* the second switch of a caller, to the PLL whose multiplier it had raised: the
\* rate was recomputed after two barriers
C17_Witness ==
    /\ last.op = "scs.update" /\ last.arg = "PLL"
    /\ sysSrc = "PLL" /\ pllMul = PLL_MUL_MAX
    /\ dsbCount = 2 /\ scsPc = "idle"
    /\ sysRate = derived_rate("PLL", pllSrc, pllMul, pllDiv)

\* the state of clock c in the given enable and ready bits
Phase(on, rdy, c) ==
    IF ~on[c] THEN (IF rdy[c] THEN "Off-Ready" ELSE "Off")
    ELSE IF rdy[c] THEN "On-Ready" ELSE "On-Not-Ready"

\* what the operations do to the state of a clock, given the moves allowed
ClockMoves(allowed) ==
    \A c \in Clock :
    LET from == Phase(clockOn, clockRdy, c)
        to   == Phase(clockOn', clockRdy', c)
    IN  /\ from # to => <<from, to>> \in allowed
        /\ (from = "Off" /\ to # "Off") =>
               last' = Call("enable_clock", c, "ok")
        /\ (from = "On-Not-Ready" /\ to = "On-Ready") =>
               last' = Call("hw_ready", c, "ok")
        /\ (from # "Off" /\ to = "Off") =>
               last' = Call("disable_clock", c, TRUE)
        /\ last' = Call("enable_clock", c, "ok") =>
               clockOn'[c] /\ clockRdy'[c] = clockRdy[c]
        /\ last'.op \in {"clock_is_on", "clock_is_ready"} =>
               /\ UNCHANGED <<rccVars, enr, gpioVars, extVars, panicked>>
               /\ last'.op = "clock_is_on" => last'.res = clockOn[last'.arg]
               /\ last'.op = "clock_is_ready" => last'.res = clockRdy[last'.arg]

\* C18 as stated: each clock moves only along Off -> On-Not-Ready -> On-Ready ->
\* Off; enable_clock sets the enable bit without waiting, only the hardware step
\* makes a clock ready, only an accepted disable_clock returns it to Off; a clock
\* that is off is never ready, and the status reads change no state.
C18_ClockCycle ==
    /\ [](\A c \in Clock : clock_is_ready(c) => clock_is_on(c))
    /\ [][ClockMoves({ <<"Off", "On-Not-Ready">>, <<"On-Not-Ready", "On-Ready">>,
                       <<"On-Ready", "Off">> })]_vars

\* C18, amended: as above, and an accepted disable_clock also returns a clock to
\* Off from On-Not-Ready, before the hardware has made it ready.
C18_ClockCycleOrEarlyOff ==
    /\ [](\A c \in Clock : clock_is_ready(c) => clock_is_on(c))
    /\ [][ClockMoves({ <<"Off", "On-Not-Ready">>, <<"On-Not-Ready", "On-Ready">>,
                       <<"On-Ready", "Off">>, <<"On-Not-Ready", "Off">> })]_vars

\* HSE, enabled and made ready by the hardware, was polled as ready and has then
\* been switched off by an accepted disable_clock
C18_Witness ==
    /\ last = Call("disable_clock", "HSE", TRUE)
    /\ ~clock_is_on("HSE") /\ ~clock_is_ready("HSE")
    /\ clock_is_on("PLL") /\ ~clock_is_ready("PLL")
    /\ clock_is_on("HSI48") /\ clock_is_ready("HSI48")

-----------------------------------------------------------------------------
(* Claims about concurrent updates of one word *)

BothDone == \A x \in Context : ctxPc[x] = "done"

\* the word holds what enable_usart(ctxArg["main"]) asked for
EnablePresent == (0 \in cr1) = ctxArg["main"]

\* the word holds what set_mode(ctxArg["irq"]) asked for
ModePresent ==
    cr1 \cap {2, 3} = CASE ctxArg["irq"] = "None"     -> {}
                        [] ctxArg["irq"] = "Receive"  -> {2}
                        [] ctxArg["irq"] = "Transmit" -> {3}
                        [] ctxArg["irq"] = "All"      -> {2, 3}

\* C19: when the two setters are serialized, the word holds both updates once
\* both have returned; a word that misses one of them comes only from callers
\* that did not serialize (the witness below is such a lost update).
C19_SerializedKeepsBoth ==
    BothDone => /\ serialized => (EnablePresent /\ ModePresent)
                /\ (EnablePresent \/ ModePresent)

\* unsynchronized callers, a clear word: enable_usart(true) and set_mode(All) have
\* both returned, and bit 0 is clear: the update of the main context is lost
C19_LostUpdate ==
    /\ ~serialized /\ BothDone
    /\ ctxArg["main"] = TRUE /\ ctxArg["irq"] = "All"
    /\ cr1 = {2, 3}
====
